---- MODULE Spec2Model ----
(***************************************************************************)
(* Annotation rendering and composition engine of rmapi                    *)
(* (annotations/pdf_cairo.go): PdfGenerator.Generate, the page loop of     *)
(* generateAnnotationsOnly, the two-step generateWithBackground, the brush *)
(* renderers and the file system and collaborators they act on.            *)
(*                                                                         *)
(* Reals are kept exact in integers: a surface coordinate is stored as a   *)
(* multiple of 1/CoordDen points, a line width of an ordinary stroke and a *)
(* BrushSize in tenths.                                                    *)
(***************************************************************************)
EXTENDS Integers, Sequences, FiniteSets, TLC

\* ------------------------------------------------------------------ bounds
\* Longest document (source pages) of the single-call specification.
MaxPages == 3

\* Longest line (points), longest layer (lines) and deepest page (layers) of
\* the drawing specification.
MaxPoints == 3
MaxLines == 2
MaxLayers == 2

\* Free names, beyond the least one, that os.CreateTemp may return when two
\* calls run concurrently.
NameSpare == 1

\* Calls made on one generator of the build without cairo.
MaxCalls == 2

\* --------------------------------------------------------------- constants
DeviceWidth == 1404
DeviceHeight == 1872

rmPageSize == [Width |-> 445, Height |-> 594]

\* Common denominator of the two possible scales W/DeviceWidth, H/DeviceHeight.
CoordDen == 4 * DeviceWidth

Gens == {"g1", "g2"}

\* ------------------------------------------------------------- byte values
\* A file or buffer: kind "empty" (zero bytes), "pdf" (parses as a PDF, with
\* its pages) or "junk" (non-empty bytes that do not parse as a PDF).
EmptyBytes == [kind |-> "empty", id |-> "", pages |-> <<>>]
JunkBytes(id) == [kind |-> "junk", id |-> id, pages |-> <<>>]
PdfBytes(pages) == [kind |-> "pdf", id |-> "", pages |-> pages]

\* A one-page background document, as the archive carries it.
BackgroundPage == [w |-> 612, h |-> 792, ops |-> <<[op |-> "Background", x |-> 0, y |-> 0]>>]
ValidBackground == PdfBytes(<<BackgroundPage>>)
\* Another one, of another size, to tell two calls' backgrounds apart.
A4Background == PdfBytes(<<[w |-> 595, h |-> 842, ops |-> <<[op |-> "Background", x |-> 0, y |-> 0]>>]>>)
CorruptBackground == JunkBytes("corrupt")
OldOutput == JunkBytes("old")
PartialOutput == JunkBytes("partial")

\* api.ReadContext succeeds on these bytes.
ParsesAsPdf(b) == b.kind = "pdf" /\ Len(b.pages) >= 1

\* ------------------------------------------------------------- the document
Pt(x, y) == [X |-> x, Y |-> y]
PenLine == [BrushType |-> "Fineliner", BrushColor |-> "Black", BrushSize |-> 20,
            Points |-> <<Pt(100, 200), Pt(300, 400)>>]
EraserLine == [BrushType |-> "Eraser", BrushColor |-> "Black", BrushSize |-> 20,
               Points |-> <<Pt(100, 200), Pt(300, 400)>>]

Rm(lines) == [Layers |-> <<[Lines |-> lines]>>]

\* archive.Page: Data is nil (<<>>) or one parsed .rm file (<<rm>>).
BlankPage == [Data |-> <<>>]
PenPage == [Data |-> <<Rm(<<PenLine>>)>>]
ErasedPage == [Data |-> <<Rm(<<EraserLine>>)>>]
PageKinds == {BlankPage, PenPage, ErasedPage}

SeqsUpTo(S, n) == UNION {[1..k -> S] : k \in 0..n}

\* The documents of the drawing specification.
HighlighterLine == [BrushType |-> "HighlighterV5", BrushColor |-> "Black", BrushSize |-> 20,
                    Points |-> <<Pt(100, 200), Pt(300, 400)>>]

\* Device points: the two extreme corners of the device and one inside.
DevicePoints == {Pt(0, 0), Pt(100, 200), Pt(DeviceWidth, DeviceHeight)}

BrushTypes == {"Fineliner", "HighlighterV5", "Eraser"}
BrushColors == {"Black", "White", "Grey"}
\* BrushSize 1.8, 2.0 and 3.0, in tenths.
BrushSizes == {18, 20, 30}

\* Lines of every brush type and every shape, and ordinary lines of every ink.
ShapedLines == [BrushType : BrushTypes, BrushColor : {"Black"}, BrushSize : {20},
                Points : SeqsUpTo(DevicePoints, MaxPoints)]
InkedLines == [BrushType : {"Fineliner"}, BrushColor : BrushColors, BrushSize : BrushSizes,
               Points : {<<Pt(100, 200), Pt(300, 400)>>}]
LinePages == {[Data |-> <<Rm(<<line>>)>>] : line \in ShapedLines \cup InkedLines}

\* Pages of several layers of several lines.
LayerKinds == [Lines : SeqsUpTo({PenLine, HighlighterLine}, MaxLines)]
LayeredPages == {[Data |-> <<[Layers |-> layers]>>] : layers \in SeqsUpTo(LayerKinds, MaxLayers)}

InkPage == [Data |-> <<[Layers |-> <<[Lines |-> <<PenLine, HighlighterLine>>],
                                    [Lines |-> <<HighlighterLine>>]>>]>>]

\* --------------------------------------------------------- Geometry Mapper
\* scale * CoordDen for a page of the given size.
ScaleOf(pageWidth, pageHeight) ==
    IF 100 * pageHeight < 133 * pageWidth
    THEN pageWidth * (CoordDen \div DeviceWidth)
    ELSE pageHeight * (CoordDen \div DeviceHeight)

\* Faulty variant of normalized: the axes are exchanged.
normalizedSwapped(p1, scale) == <<p1.Y * scale, p1.X * scale>>

normalized(p1, scale) == <<p1.X * scale, p1.Y * scale>>

\* ----------------------------------------------------------- surface calls
Call(op, x, y) == [op |-> op, x |-> x, y |-> y]

ColorOf(c) ==
    CASE c = "Black" -> 0
      [] c = "White" -> 101010
      [] c = "Grey" -> 50505
      [] OTHER -> 0

\* Faulty variant of StrokeWidth: the lower limit of lines 320-322 is missing.
StrokeWidthUnclamped(brushSize) == brushSize * 6 - 108

StrokeWidth(brushSize) ==
    LET strokeWidth == brushSize * 6 - 108
    IN IF strokeWidth < 5 THEN 5 ELSE strokeWidth

RECURSIVE PathCalls(_, _, _, _)
PathCalls(points, i, scale, pageHeight) ==
    IF i > Len(points) THEN <<>>
    ELSE LET n == normalized(points[i], scale)
             x == n[1]
             y == pageHeight * CoordDen - n[2]
         IN <<Call(IF i = 1 THEN "MoveTo" ELSE "LineTo", x, y)>>
            \o PathCalls(points, i + 1, scale, pageHeight)

drawStroke(line, scale, pageHeight) ==
    IF Len(line.Points) < 1 THEN <<>>
    ELSE <<Call("SetSourceRGB", ColorOf(line.BrushColor), 0),
           Call("SetLineWidth", StrokeWidth(line.BrushSize), 0),
           Call("SetLineCap", 1, 0),
           Call("SetLineJoin", 1, 0)>>
         \o PathCalls(line.Points, 1, scale, pageHeight)
         \o <<Call("Stroke", 0, 0)>>

\* Faulty variant of drawHighlighter: the segment ends at the last point's
\* own height.
drawHighlighterToLast(line, scale, pageHeight) ==
    IF Len(line.Points) < 2 THEN <<>>
    ELSE LET last == Len(line.Points)
             n1 == normalized(line.Points[1], scale)
             n2 == normalized(line.Points[last], scale)
             width == scale * 30
         IN <<Call("SetSourceRGBA", 101000, 5),
              Call("SetLineWidth", width, 0),
              Call("SetLineCap", 0, 0),
              Call("MoveTo", n1[1], pageHeight * CoordDen - (n1[2] + width \div 2)),
              Call("LineTo", n2[1], pageHeight * CoordDen - (n2[2] + width \div 2)),
              Call("Stroke", 0, 0)>>

drawHighlighter(line, scale, pageHeight) ==
    IF Len(line.Points) < 2 THEN <<>>
    ELSE LET last == Len(line.Points)
             n1 == normalized(line.Points[1], scale)
             n2 == normalized(line.Points[last], scale)
             width == scale * 30
             y1 == n1[2] + width \div 2
             y == pageHeight * CoordDen - y1
         IN <<Call("SetSourceRGBA", 101000, 5),
              Call("SetLineWidth", width, 0),
              Call("SetLineCap", 0, 0),
              Call("MoveTo", n1[1], y),
              Call("LineTo", n2[1], y),
              Call("Stroke", 0, 0)>>

\* Faulty variant of DrawLine: the eraser test of line 255 is missing.
DrawLineErasersToo(line, scale, pageHeight) ==
    IF Len(line.Points) < 1 THEN <<>>
    ELSE IF line.BrushType = "HighlighterV5" THEN drawHighlighter(line, scale, pageHeight)
    ELSE drawStroke(line, scale, pageHeight)

DrawLine(line, scale, pageHeight) ==
    IF Len(line.Points) < 1 THEN <<>>
    ELSE IF line.BrushType = "Eraser" THEN <<>>
    ELSE IF line.BrushType = "HighlighterV5" THEN drawHighlighter(line, scale, pageHeight)
    ELSE drawStroke(line, scale, pageHeight)

\* Tag(calls, l, k): the calls, each marked with the layer and line issuing it.
Tag(calls, l, k) ==
    [i \in 1..Len(calls) |-> [op |-> calls[i].op, x |-> calls[i].x, y |-> calls[i].y,
                              layer |-> l, line |-> k]]

RECURSIVE LinesCalls(_, _, _, _, _)
LinesCalls(lines, l, k, scale, pageHeight) ==
    IF k > Len(lines) THEN <<>>
    ELSE Tag(DrawLine(lines[k], scale, pageHeight), l, k)
         \o LinesCalls(lines, l, k + 1, scale, pageHeight)

\* Faulty variant of LayersCalls: the layers are drawn last to first.
RECURSIVE LayersCallsBackwards(_, _, _, _)
LayersCallsBackwards(layers, l, scale, pageHeight) ==
    IF l > Len(layers) THEN <<>>
    ELSE LayersCallsBackwards(layers, l + 1, scale, pageHeight)
         \o LinesCalls(layers[l].Lines, l, 1, scale, pageHeight)

RECURSIVE LayersCalls(_, _, _, _)
LayersCalls(layers, l, scale, pageHeight) ==
    IF l > Len(layers) THEN <<>>
    ELSE LinesCalls(layers[l].Lines, l, 1, scale, pageHeight)
         \o LayersCalls(layers, l + 1, scale, pageHeight)

drawAnnotations(rmData, scale, pageHeight) ==
    Tag(<<Call("Save", 0, 0)>>, 0, 0)
    \o LayersCalls(rmData.Layers, 1, scale, pageHeight)
    \o Tag(<<Call("Restore", 0, 0)>>, 0, 0)

drawPageNumber(pageNum, pageWidth, pageHeight) ==
    Tag(<<Call("Save", 0, 0),
          Call("SelectFontFace", 0, 0),
          Call("SetFontSize", 80, 0),
          Call("SetSourceRGB", 0, 0),
          Call("MoveTo", (pageWidth - 20) * CoordDen, (pageHeight - 10) * CoordDen),
          Call("ShowText", pageNum, 0),
          Call("Restore", 0, 0)>>, 0, 0)

\* ------------------------------------------------------------- PDF surface
\* cairo's paged PDF surface: the finished pages, the calls issued on the
\* current page and its size. A page is [w, h, ops].
\* A temporary file's name: the pattern given to os.CreateTemp and the number
\* put in place of its star. NoPath: no file.
NoPath == <<"", 0>>

NoSurface == [path |-> NoPath, w |-> 0, h |-> 0, done |-> <<>>, cur |-> <<>>, finished |-> FALSE]

NewPDFSurface(path, width, height) ==
    [path |-> path, w |-> width, h |-> height, done |-> <<>>, cur |-> <<>>, finished |-> FALSE]

CurrentPage(s) == [w |-> s.w, h |-> s.h, ops |-> s.cur]

\* The current page carries a mark (cairo's surface is no longer clear).
HasDrawn(ops) == \E i \in 1..Len(ops) : ops[i].op \in {"Stroke", "ShowText"}

Untag(c) == Call(c.op, c.x, c.y)

SurfaceCall(s, c) ==
    IF s.finished THEN s
    ELSE IF c.op = "ShowPage"
    THEN [s EXCEPT !.done = Append(@, CurrentPage(s)), !.cur = <<>>]
    ELSE IF c.op = "SetSize"
    THEN [s EXCEPT !.w = c.x, !.h = c.y]
    ELSE [s EXCEPT !.cur = Append(@, Untag(c))]

RECURSIVE SurfaceCalls(_, _, _)
SurfaceCalls(s, calls, i) ==
    IF i > Len(calls) THEN s
    ELSE LET next == SurfaceCall(s, calls[i])
         IN IF next.finished THEN next ELSE SurfaceCalls(next, calls, i + 1)

\* Finish emits the current page iff it carries a mark or no page was emitted.
FinishedPages(s) ==
    IF HasDrawn(s.cur) \/ Len(s.done) = 0 THEN Append(s.done, CurrentPage(s)) ELSE s.done

\* ------------------------------------------------------------ the page loop
\* One iteration of the loop of generateAnnotationsOnly for one source page:
\* the new pageCount and the surface calls it issues, in order.
\* Faulty variant of Skipped: the skip test of line 133 is missing.
SkippedNever(opts, page) == FALSE

Skipped(opts, page) == ~opts.AllPages /\ Len(page.Data) = 0

AdvanceAfter(pageCount, nPages, opts) == pageCount < nPages \/ opts.AllPages

\* Faulty variant of NumberLabel: the index of the page in the source document.
NumberLabelBySource(pageCount, i) == i

\* The number drawPageNumber is given, line 172.
NumberLabel(pageCount, i) == pageCount

\* Faulty variant of ResizeBefore: the test of line 140 is missing.
ResizeAlways(pageCount) == TRUE

\* The test of line 140: the page size is set for pages after the first.
ResizeBefore(pageCount) == pageCount > 1

PageCalls(page, i, count, nPages, opts, template) ==
    LET hasContent == Len(page.Data) > 0
        pageCount == count + 1
        firstWidth == rmPageSize.Width
        firstHeight == rmPageSize.Height
        pageWidth == firstWidth
        pageHeight == firstHeight
        scale == ScaleOf(pageWidth, pageHeight)
    IN IF Skipped(opts, page) THEN <<>>
       ELSE (IF ResizeBefore(pageCount)
             THEN Tag(<<Call("SetSize", rmPageSize.Width, rmPageSize.Height)>>, 0, 0)
             ELSE <<>>)
            \o (IF hasContent THEN drawAnnotations(page.Data[1], scale, pageHeight) ELSE <<>>)
            \o (IF opts.AddPageNumbers
                THEN drawPageNumber(NumberLabel(pageCount, i), pageWidth, pageHeight)
                ELSE <<>>)
            \o (IF AdvanceAfter(pageCount, nPages, opts)
                THEN Tag(<<Call("ShowPage", 0, 0)>>, 0, 0)
                ELSE <<>>)

\* The calls of one source page, each marked with that page's index.
OfPage(calls, i) ==
    [k \in 1..Len(calls) |-> [op |-> calls[k].op, x |-> calls[k].x, y |-> calls[k].y,
                              layer |-> calls[k].layer, line |-> calls[k].line, page |-> i]]

\* ------------------------------------------------------ merge collaborator
\* pdfcpu's MergeRaw: the pages of the input streams, in the order given.
RECURSIVE MergedPages(_, _)
MergedPages(streams, i) ==
    IF i > Len(streams) THEN <<>>
    ELSE streams[i].pages \o MergedPages(streams, i + 1)

MergeAccepts(streams) == \A i \in 1..Len(streams) : ParsesAsPdf(streams[i])

MergeRaw(streams) == PdfBytes(MergedPages(streams, 1))

\* --------------------------------------------------------------- archives
Unreadable == [readable |-> FALSE, FileType |-> "", Payload |-> EmptyBytes, Pages |-> <<>>]

Payloads == {EmptyBytes, ValidBackground, CorruptBackground}

\* What a call may find at zipName.
Archives ==
    {Unreadable} \cup
    [readable : {TRUE}, FileType : {"pdf", "epub"}, Payload : Payloads,
     Pages : SeqsUpTo(PageKinds, MaxPages)]

\* What a call of the drawing specification may find at zipName: one page of
\* one line, one page of several layers, or several pages.
DrawArchives ==
    [readable : {TRUE}, FileType : {"pdf"}, Payload : {EmptyBytes},
     Pages : {<<page>> : page \in LinePages \cup LayeredPages}]
    \cup
    [readable : {TRUE}, FileType : {"pdf"}, Payload : {EmptyBytes, ValidBackground},
     Pages : SeqsUpTo({BlankPage, PenPage, InkPage}, MaxPages)]

\* What each of two concurrent calls may find at its zipName: each has an
\* archive of its own, with a document and a background unlike the other's.
ConcurrentArchives(g) ==
    [readable : {TRUE}, FileType : {"pdf"},
     Payload : {EmptyBytes, IF g = "g1" THEN ValidBackground ELSE A4Background},
     Pages : {<<IF g = "g1" THEN PenPage ELSE InkPage>>}]

\* What the calls made one after the other on one generator may find at its
\* zipName: the archive there may be replaced between calls.
ReuseArchives ==
    [readable : {TRUE}, FileType : {"pdf"}, Payload : {EmptyBytes, ValidBackground},
     Pages : {<<PenPage>>}]

Options == [AddPageNumbers : BOOLEAN, AllPages : BOOLEAN, AnnotationsOnly : BOOLEAN]

\* ------------------------------------------------------------------- state
VARIABLES
    pc,                 \* where each generator's Generate call stands
    options,            \* PdfGenerator.options
    backgroundPDF,      \* PdfGenerator.backgroundPDF: <<>> (nil) or <<bytes>>
    template,           \* PdfGenerator.template
    zip,                \* the archive this call read
    caller,             \* who called generateAnnotationsOnly
    tmpAnnotationsPath, \* generateWithBackground's annotation-layer file (0: none)
    tmpPath,            \* generateAnnotationsOnly's render file (0: none)
    tmpBackgroundPath,  \* generateWithBackground's background copy (0: none)
    pdfSurface,         \* the cairo surface of the call
    pageCount,          \* output pages so far
    idx,                \* next source page of the loop
    err,                \* what the call returned ("" is nil)
    tmp,                \* the temporary directory: name -> bytes
    output,             \* the file at outputFilePath: <<>> (absent) or <<bytes>>
    calls,              \* history: the surface calls of this call, in order
    before,             \* history: the output file when the call began
    rendered,           \* history: the bytes Finish flushed, <<>> before that
    merges,             \* history: the stream lists handed to MergeRaw
    fault,              \* history: the environment failure injected ("" none)
    made,               \* history: the temporary names this call created
    ncalls,             \* history: Generate calls begun on the generator
    limit,              \* Generate calls the scenario allows the generator
    scenario,           \* "single": one call on g1; "twin": g2 repeats g1's call
                        \* on the same document without its background
    zd                  \* archive.CreateZipDocument: where its call stands, its
                        \* arguments, its archive so far and its results

genVars == <<options, backgroundPDF, template>>
locVars == <<zip, caller, tmpAnnotationsPath, tmpPath, tmpBackgroundPath>>
loopVars == <<pdfSurface, pageCount, idx, calls>>
histVars == <<before, rendered, merges, made, ncalls, limit, scenario>>
\* All of the annotation engine's variables but the file system.
engineVars == <<pc, genVars, locVars, loopVars, err, output, fault, histVars>>
vars == <<pc, genVars, locVars, loopVars, err, tmp, output, fault, histVars, zd>>

NoError == ""

NoOptions == [AddPageNumbers |-> FALSE, AllPages |-> FALSE, AnnotationsOnly |-> FALSE]

\* CreateZipDocument not called yet.
NoZipCall ==
    [pc |-> "idle", n |-> 0, ext |-> "", env |-> "", srcPath |-> NoPath, tmpName |-> NoPath,
     entries |-> <<>>, fileType |-> "", thumbCalls |-> 0, thumbErr |-> NoError,
     failed |-> "", zipPath |-> NoPath, err |-> NoError]

\* CreatePdfGenerator, lines 51-53, for every generator; no call begun.
Created ==
    /\ zd = NoZipCall
    /\ pc = [g \in Gens |-> "idle"]
    /\ backgroundPDF = [g \in Gens |-> <<>>]
    /\ template = [g \in Gens |-> FALSE]
    /\ zip = [g \in Gens |-> Unreadable]
    /\ caller = [g \in Gens |-> ""]
    /\ tmpAnnotationsPath = [g \in Gens |-> NoPath]
    /\ tmpPath = [g \in Gens |-> NoPath]
    /\ tmpBackgroundPath = [g \in Gens |-> NoPath]
    /\ pdfSurface = [g \in Gens |-> NoSurface]
    /\ pageCount = [g \in Gens |-> 0]
    /\ idx = [g \in Gens |-> 0]
    /\ err = [g \in Gens |-> NoError]
    /\ tmp = <<>>
    /\ calls = [g \in Gens |-> <<>>]
    /\ rendered = [g \in Gens |-> <<>>]
    /\ merges = [g \in Gens |-> <<>>]
    /\ fault = [g \in Gens |-> ""]
    /\ made = [g \in Gens |-> {}]
    /\ ncalls = [g \in Gens |-> 0]

\* One generator, called once, with any options, the destination absent or not.
Init ==
    /\ Created
    /\ scenario = "single"
    /\ limit = [g \in Gens |-> IF g = "g1" THEN 1 ELSE 0]
    /\ \E o \in Options : options = [g \in Gens |-> IF g = "g1" THEN o ELSE NoOptions]
    /\ \E f \in {<<>>, <<OldOutput>>} : output = [g \in Gens |-> IF g = "g1" THEN f ELSE <<>>]
    /\ before = output

\* Two generators with the same options and fresh destinations, called one
\* after the other.
InitTwin ==
    /\ Created
    /\ scenario = "twin"
    /\ limit = [g \in Gens |-> 1]
    /\ \E o \in Options : options = [g \in Gens |-> o]
    /\ output = [g \in Gens |-> <<>>]
    /\ before = output

\* One generator, called once on a document of the drawing specification.
InitDraw ==
    /\ Created
    /\ scenario = "draw"
    /\ limit = [g \in Gens |-> IF g = "g1" THEN 1 ELSE 0]
    /\ \E o \in Options :
        /\ ~o.AnnotationsOnly /\ o.AllPages = o.AddPageNumbers
        /\ options = [g \in Gens |-> IF g = "g1" THEN o ELSE NoOptions]
    /\ output = [g \in Gens |-> <<>>]
    /\ before = output

\* Two generators, each with its own fresh destination, each called once;
\* their calls may overlap in any way.
InitConcurrent ==
    /\ Created
    /\ scenario = "concurrent"
    /\ limit = [g \in Gens |-> 1]
    /\ options = [g \in Gens |-> NoOptions]
    /\ output = [g \in Gens |-> <<>>]
    /\ before = output

\* One generator, called up to MaxCalls times, each call after the one before
\* has returned.
InitReuse ==
    /\ Created
    /\ scenario = "reuse"
    /\ limit = [g \in Gens |-> IF g = "g1" THEN MaxCalls ELSE 0]
    /\ \E o \in Options :
        /\ ~o.AllPages /\ ~o.AddPageNumbers
        /\ options = [g \in Gens |-> IF g = "g1" THEN o ELSE NoOptions]
    /\ output = [g \in Gens |-> <<>>]
    /\ before = output

\* ------------------------------------------------------------- file system
\* os.CreateTemp: a name of the pattern that no existing file has. Which one
\* is the allocator's choice; it matters only to calls that run concurrently,
\* and a call running alone is given the least.
\* Faulty variant of FreshNames: a name is returned whether or not a file has it.
FreshNamesTaken(pattern) == {<<pattern, 1>>}

FreshNames(pattern) ==
    LET free == {n \in 1..(Cardinality(DOMAIN tmp) + 1 + NameSpare) :
                    <<pattern, n>> \notin DOMAIN tmp}
        rank(n) == Cardinality({m \in free : m < n})
    IN {<<pattern, n>> : n \in {m \in free :
            rank(m) <= (IF scenario = "concurrent" THEN NameSpare ELSE 0)}}

WriteTmp(fs, name, bytes) == [n \in DOMAIN fs \cup {name} |-> IF n = name THEN bytes ELSE fs[n]]

RemoveTmp(fs, names) == [n \in DOMAIN fs \ names |-> fs[n]]

\* ----------------------------------------------------------------- actions
\* Generate, lines 65-103: read the archive, inspect the background, choose
\* the mode.
\* Faulty variant of initBackgroundPages: the payload is kept unparsed.
initBackgroundPagesUnparsed(pdfArr, bg, tpl) ==
    IF pdfArr.kind # "empty"
    THEN [err |-> "", backgroundPDF |-> <<pdfArr>>, template |-> FALSE]
    ELSE [err |-> "", backgroundPDF |-> bg, template |-> TRUE]

\* initBackgroundPages, lines 358-380: the error and the generator's fields
\* after it, from the payload and the fields before it.
initBackgroundPages(pdfArr, bg, tpl) ==
    IF pdfArr.kind # "empty"
    THEN IF ~ParsesAsPdf(pdfArr)
         THEN [err |-> "failed to read PDF", backgroundPDF |-> bg, template |-> tpl]
         ELSE [err |-> NoError, backgroundPDF |-> <<pdfArr>>, template |-> FALSE]
    ELSE [err |-> NoError, backgroundPDF |-> bg, template |-> TRUE]

\* Faulty variant of Overlay: the mode test forgets AnnotationsOnly.
OverlayDespiteOption(bg, opts) == Len(bg) > 0

\* The mode test of line 97.
Overlay(bg, opts) == Len(bg) > 0 /\ ~opts.AnnotationsOnly

\* Faulty variant of EmptyDocument: the test of line 92 is missing.
EmptyDocumentAccepted(a) == FALSE

\* The test of line 92.
EmptyDocument(a) == Len(a.Pages) = 0

\* What the call finds at zipName.
ArchivesFor(g) ==
    IF scenario = "twin" /\ g = "g2"
    THEN {[zip["g1"] EXCEPT !.Payload = EmptyBytes]}
    ELSE IF scenario = "draw" THEN DrawArchives
    ELSE IF scenario = "concurrent" THEN ConcurrentArchives(g)
    ELSE IF scenario = "reuse" THEN ReuseArchives
    ELSE Archives

MayBegin(g) ==
    /\ pc[g] \in {"idle", "done"}
    /\ ncalls[g] < limit[g]
    /\ scenario = "twin" /\ g = "g2" => pc["g1"] = "done"

Generate(g) ==
    /\ UNCHANGED zd
    /\ MayBegin(g)
    /\ \E a \in ArchivesFor(g) :
        LET early == IF ~a.readable THEN "open archive"
                     ELSE IF a.FileType = "epub" THEN "only pdf and notebooks supported"
                     ELSE NoError
            init == IF early = NoError
                    THEN initBackgroundPages(a.Payload, backgroundPDF[g], template[g])
                    ELSE [err |-> early, backgroundPDF |-> backgroundPDF[g],
                          template |-> template[g]]
            e == IF init.err # NoError THEN init.err
                 ELSE IF EmptyDocument(a) THEN "the document has no pages"
                 ELSE NoError
            overlay == Overlay(init.backgroundPDF, options[g])
        IN /\ zip' = [zip EXCEPT ![g] = a]
           /\ backgroundPDF' = [backgroundPDF EXCEPT ![g] = init.backgroundPDF]
           /\ template' = [template EXCEPT ![g] = init.template]
           /\ err' = [err EXCEPT ![g] = e]
           /\ fault' = [fault EXCEPT ![g] = IF a.readable THEN "" ELSE "open archive"]
           /\ caller' = [caller EXCEPT ![g] =
                  IF e = NoError /\ overlay THEN "generateWithBackground" ELSE "Generate"]
           /\ pc' = [pc EXCEPT ![g] =
                  IF e # NoError THEN "done"
                  ELSE IF overlay THEN "tmpAnnotations" ELSE "tmpRender"]
    /\ tmpAnnotationsPath' = [tmpAnnotationsPath EXCEPT ![g] = NoPath]
    /\ tmpPath' = [tmpPath EXCEPT ![g] = NoPath]
    /\ tmpBackgroundPath' = [tmpBackgroundPath EXCEPT ![g] = NoPath]
    /\ pdfSurface' = [pdfSurface EXCEPT ![g] = NoSurface]
    /\ pageCount' = [pageCount EXCEPT ![g] = 0]
    /\ idx' = [idx EXCEPT ![g] = 0]
    /\ calls' = [calls EXCEPT ![g] = <<>>]
    /\ before' = [before EXCEPT ![g] = output[g]]
    /\ rendered' = [rendered EXCEPT ![g] = <<>>]
    /\ merges' = [merges EXCEPT ![g] = <<>>]
    /\ made' = [made EXCEPT ![g] = {}]
    /\ ncalls' = [ncalls EXCEPT ![g] = @ + 1]
    /\ UNCHANGED <<options, tmp, output, limit, scenario>>

\* The call returns the error e; f names the environment failure behind it.
Fail(g, e, f) ==
    /\ err' = [err EXCEPT ![g] = e]
    /\ fault' = [fault EXCEPT ![g] = IF f = "" THEN @ ELSE f]
    /\ pc' = [pc EXCEPT ![g] = "done"]

\* generateWithBackground, lines 189-195: the annotation-layer file.
CreateTempAnnotations(g) ==
    /\ UNCHANGED zd
    /\ pc[g] = "tmpAnnotations"
    /\ \E ok \in BOOLEAN :
        IF ok
        THEN \E name \in FreshNames("rmapi-annotations") :
                /\ tmp' = WriteTmp(tmp, name, EmptyBytes)
                /\ tmpAnnotationsPath' = [tmpAnnotationsPath EXCEPT ![g] = name]
                /\ made' = [made EXCEPT ![g] = @ \cup {name}]
                /\ pc' = [pc EXCEPT ![g] = "tmpRender"]
                /\ UNCHANGED <<err, fault>>
        ELSE /\ Fail(g, "failed to create temp annotations file", "CreateTemp")
             /\ UNCHANGED <<tmp, tmpAnnotationsPath, made>>
    /\ UNCHANGED <<genVars, zip, caller, tmpPath, tmpBackgroundPath, loopVars, output,
                   before, rendered, merges, ncalls, limit, scenario>>

\* Faulty variant of Deferred: the deferred Remove of line 214 is missing.
DeferredAnnotationsOnly(g) == {tmpAnnotationsPath[g]} \ {NoPath}

\* The files generateWithBackground's deferred calls remove when it returns.
Deferred(g) == {tmpAnnotationsPath[g], tmpBackgroundPath[g]} \ {NoPath}

\* generateAnnotationsOnly, lines 107-126: the render file and the surface on it.
CreateTempRender(g) ==
    /\ UNCHANGED zd
    /\ pc[g] = "tmpRender"
    /\ \E ok \in BOOLEAN :
        IF ok
        THEN \E name \in FreshNames("rmapi-annotations") :
                /\ tmp' = WriteTmp(tmp, name, EmptyBytes)
                /\ tmpPath' = [tmpPath EXCEPT ![g] = name]
                /\ made' = [made EXCEPT ![g] = @ \cup {name}]
                /\ pdfSurface' = [pdfSurface EXCEPT ![g] =
                       NewPDFSurface(name, rmPageSize.Width, rmPageSize.Height)]
                /\ idx' = [idx EXCEPT ![g] = 1]
                /\ pc' = [pc EXCEPT ![g] = "render"]
                /\ UNCHANGED <<err, fault>>
        ELSE /\ Fail(g, "failed to create temp file", "CreateTemp")
             /\ tmp' = RemoveTmp(tmp, Deferred(g))
             /\ UNCHANGED <<tmpPath, made, pdfSurface, idx>>
    /\ UNCHANGED <<genVars, zip, caller, tmpAnnotationsPath, tmpBackgroundPath, pageCount,
                   calls, output, before, rendered, merges, ncalls, limit, scenario>>

\* generateAnnotationsOnly, lines 129-179: one iteration of the page loop.
PageStep(g) ==
    /\ UNCHANGED zd
    /\ pc[g] = "render"
    /\ idx[g] <= Len(zip[g].Pages)
    /\ LET page == zip[g].Pages[idx[g]]
           cs == PageCalls(page, idx[g], pageCount[g], Len(zip[g].Pages), options[g],
                           template[g])
       IN /\ pageCount' = [pageCount EXCEPT ![g] =
                  IF Skipped(options[g], page) THEN @ ELSE @ + 1]
          /\ pdfSurface' = [pdfSurface EXCEPT ![g] = SurfaceCalls(@, cs, 1)]
          /\ calls' = [calls EXCEPT ![g] = @ \o OfPage(cs, idx[g])]
    /\ idx' = [idx EXCEPT ![g] = @ + 1]
    /\ UNCHANGED <<pc, genVars, locVars, err, tmp, output, fault, histVars>>

\* generateAnnotationsOnly, line 181: Finish flushes the document to tmpPath.
FinishSurface(g) ==
    /\ UNCHANGED zd
    /\ pc[g] = "render"
    /\ idx[g] > Len(zip[g].Pages)
    /\ LET bytes == PdfBytes(FinishedPages(pdfSurface[g]))
       IN /\ tmp' = WriteTmp(tmp, tmpPath[g], bytes)
          /\ rendered' = [rendered EXCEPT ![g] = <<bytes>>]
    /\ pdfSurface' = [pdfSurface EXCEPT ![g].finished = TRUE]
    /\ pc' = [pc EXCEPT ![g] = "copy"]
    /\ UNCHANGED <<genVars, locVars, pageCount, idx, calls, err, output, fault,
                   before, merges, made, ncalls, limit, scenario>>

\* generateAnnotationsOnly, line 184, and copyFile, lines 382-388; then the
\* deferred Remove(tmpPath) and the return into the caller (lines 198-200).
CopyToOutput(g) ==
    /\ UNCHANGED zd
    /\ pc[g] = "copy"
    /\ \E outcome \in {"ok", "ReadFile", "WriteFile open", "WriteFile write"} :
        LET data == tmp[tmpPath[g]]
            e == IF outcome = "ok" THEN NoError ELSE outcome
            inOverlay == caller[g] = "generateWithBackground"
        IN /\ output' = [output EXCEPT ![g] =
                  IF outcome = "ok" THEN <<data>>
                  ELSE IF outcome = "WriteFile write" THEN <<PartialOutput>>
                  ELSE @]
           /\ tmp' = RemoveTmp(tmp, {tmpPath[g]} \cup (IF e # NoError THEN Deferred(g) ELSE {}))
           /\ err' = [err EXCEPT ![g] = e]
           /\ fault' = [fault EXCEPT ![g] = e]
           /\ pc' = [pc EXCEPT ![g] =
                  IF e = NoError /\ inOverlay THEN "tmpBackground" ELSE "done"]
    /\ UNCHANGED <<genVars, locVars, loopVars, histVars>>

\* generateWithBackground, lines 203-214: the background copy.
WriteBackground(g) ==
    /\ UNCHANGED zd
    /\ pc[g] = "tmpBackground"
    /\ \E outcome \in {"ok", "CreateTemp", "Write"} :
        \E name \in FreshNames("rmapi-background") :
           IF outcome = "ok"
           THEN /\ tmp' = WriteTmp(tmp, name, backgroundPDF[g][1])
                /\ tmpBackgroundPath' = [tmpBackgroundPath EXCEPT ![g] = name]
                /\ made' = [made EXCEPT ![g] = @ \cup {name}]
                /\ pc' = [pc EXCEPT ![g] = "createOutput"]
                /\ UNCHANGED <<err, fault>>
           ELSE /\ Fail(g, IF outcome = "CreateTemp"
                           THEN "failed to create temp background file"
                           ELSE "failed to write background PDF", outcome)
                /\ tmp' = RemoveTmp(tmp, Deferred(g))
                /\ made' = [made EXCEPT ![g] = IF outcome = "Write" THEN @ \cup {name} ELSE @]
                /\ UNCHANGED tmpBackgroundPath
    /\ UNCHANGED <<genVars, zip, caller, tmpAnnotationsPath, tmpPath, loopVars, output,
                   before, rendered, merges, ncalls, limit, scenario>>

\* generateWithBackground, lines 217-221: os.Create truncates the destination.
CreateOutput(g) ==
    /\ UNCHANGED zd
    /\ pc[g] = "createOutput"
    /\ \E ok \in BOOLEAN :
        IF ok
        THEN /\ output' = [output EXCEPT ![g] = <<EmptyBytes>>]
             /\ pc' = [pc EXCEPT ![g] = "openInputs"]
             /\ UNCHANGED <<err, fault, tmp>>
        ELSE /\ Fail(g, "failed to create output file", "Create")
             /\ tmp' = RemoveTmp(tmp, Deferred(g))
             /\ UNCHANGED output
    /\ UNCHANGED <<genVars, locVars, loopVars, histVars>>

\* generateWithBackground, lines 224-234: both inputs opened for reading.
OpenInputs(g) ==
    /\ UNCHANGED zd
    /\ pc[g] = "openInputs"
    /\ \E outcome \in {"ok", "background", "annotations"} :
        IF outcome = "ok"
        THEN /\ pc' = [pc EXCEPT ![g] = "merge"]
             /\ UNCHANGED <<err, fault, tmp>>
        ELSE /\ Fail(g, IF outcome = "background" THEN "failed to open background PDF"
                        ELSE "failed to open annotations PDF", "Open")
             /\ tmp' = RemoveTmp(tmp, Deferred(g))
    /\ UNCHANGED <<genVars, locVars, loopVars, output, histVars>>

\* generateWithBackground, lines 236-243: the merge, background first.
\* Faulty variant of MergeInputs: the annotation layer is handed over first.
MergeInputsSwapped(g) == <<tmpAnnotationsPath[g], tmpBackgroundPath[g]>>

\* rsc, line 238: the files handed over, by name, in call order.
MergeInputs(g) == <<tmpBackgroundPath[g], tmpAnnotationsPath[g]>>

Merge(g) ==
    /\ UNCHANGED zd
    /\ pc[g] = "merge"
    /\ \E envOk \in BOOLEAN :
        LET names == MergeInputs(g)
            rsc == [i \in 1..Len(names) |-> tmp[names[i]]]
            ok == envOk /\ MergeAccepts(rsc)
        IN /\ merges' = [merges EXCEPT ![g] = Append(@, [names |-> names, streams |-> rsc])]
           /\ output' = [output EXCEPT ![g] = IF ok THEN <<MergeRaw(rsc)>> ELSE @]
           /\ err' = [err EXCEPT ![g] = IF ok THEN NoError ELSE "failed to merge PDFs"]
           /\ fault' = [fault EXCEPT ![g] = IF envOk THEN @ ELSE "MergeRaw"]
    /\ tmp' = RemoveTmp(tmp, Deferred(g))
    /\ pc' = [pc EXCEPT ![g] = "done"]
    /\ UNCHANGED <<genVars, locVars, loopVars, before, rendered, made, ncalls, limit, scenario>>

Next ==
    \E g \in Gens :
        \/ Generate(g)
        \/ CreateTempAnnotations(g)
        \/ CreateTempRender(g)
        \/ PageStep(g)
        \/ FinishSurface(g)
        \/ CopyToOutput(g)
        \/ WriteBackground(g)
        \/ CreateOutput(g)
        \/ OpenInputs(g)
        \/ Merge(g)

Spec == Init /\ [][Next]_vars

SpecTwin == InitTwin /\ [][Next]_vars

SpecDraw == InitDraw /\ [][Next]_vars

\* Goroutines of one host process: any interleaving of the two calls' steps.
SpecConcurrent == InitConcurrent /\ [][Next]_vars

SpecReuse == InitReuse /\ [][Next]_vars

\* ------------------------------------------------- the build without cairo
\* annotations/pdf_stub.go, compiled instead of pdf_cairo.go when the cairo
\* build tag is absent.
CairoRequired == "PDF generation with annotations requires building with Cairo support"

\* CreatePdfGenerator of the stub, for two generators with any options and
\* destinations absent or not; each may be called MaxCalls times.
InitStub ==
    /\ Created
    /\ scenario = "stub"
    /\ limit = [g \in Gens |-> MaxCalls]
    /\ options \in [Gens -> Options]
    /\ output \in [Gens -> {<<>>, <<OldOutput>>}]
    /\ before = output

\* Faulty variant of GenerateStub: the call reports success.
GenerateStubSilent(g) ==
    /\ UNCHANGED zd
    /\ MayBegin(g)
    /\ err' = [err EXCEPT ![g] = NoError]
    /\ pc' = [pc EXCEPT ![g] = "done"]
    /\ before' = [before EXCEPT ![g] = output[g]]
    /\ ncalls' = [ncalls EXCEPT ![g] = @ + 1]
    /\ UNCHANGED <<genVars, locVars, loopVars, tmp, output, fault, rendered, merges, made,
                   limit, scenario>>

\* Generate of the stub, lines 30-32: the error and nothing else.
GenerateStub(g) ==
    /\ UNCHANGED zd
    /\ MayBegin(g)
    /\ err' = [err EXCEPT ![g] = CairoRequired]
    /\ pc' = [pc EXCEPT ![g] = "done"]
    /\ before' = [before EXCEPT ![g] = output[g]]
    /\ ncalls' = [ncalls EXCEPT ![g] = @ + 1]
    /\ UNCHANGED <<genVars, locVars, loopVars, tmp, output, fault, rendered, merges, made,
                   limit, scenario>>

NextStub == \E g \in Gens : GenerateStub(g)

SpecStub == InitStub /\ [][NextStub]_vars

\* ------------------------------------------------------ the archive builder
\* archive.CreateZipDocument and makeThumbnail (annotations/pdf_stub.go, lines
\* 56-115 and 137-227). A path is a name as the file system has it; NoPath
\* is the empty string.
\* The source documents: srcPath and the extension util.DocPathToName finds.
Sources ==
    {[path |-> <<"book.zip", 0>>, ext |-> "zip"], [path |-> <<"book.pdf", 0>>, ext |-> "pdf"],
     [path |-> <<"book.epub", 0>>, ext |-> "epub"], [path |-> <<"page.rm", 0>>, ext |-> "rm"]}

\* The value of RMAPI_THUMBNAILS.
Environments == {"", "1"}

\* makeThumbnail, lines 56-115: its outcomes, by the step that fails.
MakeThumbnailOutcomes == {"ok", "CreateTemp", "Write", "pdftoppm", "Open", "Decode", "Encode"}

makeThumbnail(outcome) ==
    IF outcome = "ok" THEN [thumbnail |-> <<"jpeg">>, err |-> NoError]
    ELSE [thumbnail |-> <<>>, err |-> outcome]

\* Faulty variant of WantsThumbnail: RMAPI_THUMBNAILS is not consulted.
WantsThumbnailAlways(ext, env) == ext = "pdf"

\* The test of line 189.
WantsThumbnail(ext, env) == ext = "pdf" /\ env # ""

InitZip ==
    /\ Created
    /\ scenario = "zip"
    /\ limit = [g \in Gens |-> 0]
    /\ options = [g \in Gens |-> NoOptions]
    /\ output = [g \in Gens |-> <<>>]
    /\ before = output

\* The call returns the error e with an empty zipPath.
ZipFails(e) == [zd EXCEPT !.pc = "done", !.err = e, !.failed = e, !.zipPath = NoPath]

\* CreateZipDocument, lines 137-151: a zip is returned as it is; any other
\* source is read.
CreateZipDocument ==
    /\ zd.pc \in {"idle", "done"}
    /\ zd.n < MaxCalls
    /\ \E src \in Sources, env \in Environments, readOk \in BOOLEAN :
        LET begun == [NoZipCall EXCEPT !.n = zd.n + 1, !.ext = src.ext, !.env = env,
                                       !.srcPath = src.path, !.fileType = src.ext]
        IN zd' = IF src.ext = "zip" THEN [begun EXCEPT !.pc = "done", !.zipPath = src.path]
                 ELSE IF ~readOk
                 THEN [begun EXCEPT !.pc = "done", !.err = "ReadFile", !.failed = "ReadFile"]
                 ELSE [begun EXCEPT !.pc = "TempFile"]
    /\ UNCHANGED <<tmp, engineVars>>

\* Lines 153-164: the file of the archive.
ZipTempFile ==
    /\ zd.pc = "TempFile"
    /\ \E ok \in BOOLEAN :
        IF ok
        THEN \E name \in FreshNames("rmapizip") :
                /\ tmp' = WriteTmp(tmp, name, EmptyBytes)
                /\ zd' = [zd EXCEPT !.pc = "document", !.tmpName = name]
        ELSE /\ zd' = ZipFails("TempFile")
             /\ UNCHANGED tmp
    /\ UNCHANGED engineVars

\* Lines 166-187: the entry of the document.
ZipDocumentEntry ==
    /\ zd.pc = "document"
    /\ \E ok \in BOOLEAN :
        zd' = IF ok
              THEN [zd EXCEPT !.pc = "thumbnail", !.entries = Append(@, "document"),
                              !.fileType = IF zd.ext = "rm" THEN "notebook" ELSE @]
              ELSE ZipFails("Create document")
    /\ UNCHANGED <<tmp, engineVars>>

\* Lines 189-203: the thumbnail, if wanted; makeThumbnail removes the
\* temporary files it makes before it returns.
ZipThumbnail ==
    /\ zd.pc = "thumbnail"
    /\ IF WantsThumbnail(zd.ext, zd.env)
       THEN \E outcome \in MakeThumbnailOutcomes, createOk \in BOOLEAN :
               LET r == makeThumbnail(outcome)
                   called == [zd EXCEPT !.thumbCalls = @ + 1, !.thumbErr = r.err]
               IN zd' = IF r.err # NoError THEN [called EXCEPT !.pc = "pagedata"]
                        ELSE IF createOk
                        THEN [called EXCEPT !.pc = "pagedata",
                                            !.entries = Append(@, "thumbnail")]
                        ELSE [called EXCEPT !.pc = "done", !.err = "Create thumbnail",
                                            !.failed = "Create thumbnail", !.zipPath = NoPath]
       ELSE zd' = [zd EXCEPT !.pc = "pagedata"]
    /\ UNCHANGED <<tmp, engineVars>>

\* Lines 205-211: the pagedata entry.
ZipPagedata ==
    /\ zd.pc = "pagedata"
    /\ \E ok \in BOOLEAN :
        zd' = IF ok THEN [zd EXCEPT !.pc = "content", !.entries = Append(@, "pagedata")]
              ELSE ZipFails("Create pagedata")
    /\ UNCHANGED <<tmp, engineVars>>

\* Lines 213-226: the content entry; the archive's path is the result.
ZipContent ==
    /\ zd.pc = "content"
    /\ \E outcome \in {"ok", "Create content", "createZipContent"} :
        zd' = IF outcome = "Create content" THEN ZipFails(outcome)
              ELSE IF outcome = "createZipContent"
              THEN [ZipFails(outcome) EXCEPT !.entries = Append(@, "content")]
              ELSE [zd EXCEPT !.pc = "done", !.entries = Append(@, "content"),
                              !.zipPath = zd.tmpName]
    /\ UNCHANGED <<tmp, engineVars>>

NextZip ==
    \/ CreateZipDocument
    \/ ZipTempFile
    \/ ZipDocumentEntry
    \/ ZipThumbnail
    \/ ZipPagedata
    \/ ZipContent

SpecZip == InitZip /\ [][NextZip]_vars

\* ================================================================== claims
Returned(g) == ncalls[g] > 0 /\ pc[g] = "done"

InOverlay(g) == caller[g] = "generateWithBackground"

\* The archive of the call carries bytes that do not parse as a PDF.
CorruptPayload(g) ==
    /\ ncalls[g] > 0
    /\ zip[g].readable
    /\ zip[g].Payload.kind # "empty"
    /\ zip[g].Payload.kind # "pdf"

\* Nothing of the call's work has happened: no temporary file, no surface,
\* no surface call, no merge, the destination as it was.
Untouched(g) ==
    /\ made[g] = {}
    /\ pdfSurface[g] = NoSurface
    /\ calls[g] = <<>>
    /\ rendered[g] = <<>>
    /\ merges[g] = <<>>
    /\ output[g] = before[g]

\* C1: a Generate call that returns an error leaves the destination exactly
\* as it was before the call (not created, not truncated, not partly written).
C1_FailureLeavesOutput ==
    \A g \in Gens : (Returned(g) /\ err[g] # NoError) => output[g] = before[g]

\* C2: in Overlay mode the rendering of phase (a) goes into the annotation-layer
\* temporary file and nowhere else, and the annotation stream handed to the
\* merge collaborator holds exactly the rendered bytes.
C2_LayerHoldsRendering ==
    \A g \in Gens :
        /\ (InOverlay(g) /\ pc[g] = "tmpBackground") =>
               /\ output[g] = before[g]
               /\ tmp[tmpAnnotationsPath[g]] = rendered[g][1]
        /\ \A i \in 1..Len(merges[g]) :
               /\ Len(rendered[g]) = 1
               /\ merges[g][i].streams[2] = rendered[g][1]

\* C3: Overlay mode, a valid 1-page background, a document of one annotated
\* page and a merge collaborator that fails only on an invalid stream: Generate
\* returns no error and the destination holds a non-empty output that differs
\* from the background and from the annotation-only rendering.
C3_OverlaySucceeds ==
    \A g \in Gens :
        (/\ Returned(g)
         /\ InOverlay(g)
         /\ zip[g].Payload = ValidBackground
         /\ zip[g].Pages = <<PenPage>>
         /\ fault[g] = "")
        => /\ err[g] = NoError
           /\ Len(output[g]) = 1
           /\ output[g][1].kind # "empty"
           /\ output[g][1] # zip[g].Payload
           /\ output[g][1] # rendered[g][1]

\* C4 as stated: whenever the archive carries a non-empty background buffer
\* that does not parse, Generate fails with the background-parse error, with
\* no temporary file, no rendering step and no write of the destination.
C4_AnyCorruptBackgroundIsParseError ==
    \A g \in Gens :
        CorruptPayload(g) =>
            /\ pc[g] = "done"
            /\ err[g] = "failed to read PDF"
            /\ Untouched(g)

\* C4 amended: the same for every archive that is not an epub; an epub archive
\* is refused with the unsupported-type error before its payload is parsed,
\* equally with no temporary file, no rendering step and no write.
C4_CorruptBackgroundAborts ==
    \A g \in Gens :
        CorruptPayload(g) =>
            /\ pc[g] = "done"
            /\ err[g] = IF zip[g].FileType = "epub"
                        THEN "only pdf and notebooks supported"
                        ELSE "failed to read PDF"
            /\ Untouched(g)

C4_Witness ==
    \E g \in Gens :
        /\ Returned(g)
        /\ CorruptPayload(g)
        /\ zip[g].FileType = "pdf"
        /\ Len(zip[g].Pages) > 0
        /\ options[g].AnnotationsOnly
        /\ before[g] = <<OldOutput>>
        /\ err[g] = "failed to read PDF"

\* The two calls of the twin scenario have returned, the first on an archive
\* with a background buffer and AnnotationsOnly set, the second on the same
\* document with no background buffer, both meeting the same environment.
TwinsReturned ==
    /\ scenario = "twin"
    /\ Returned("g1")
    /\ Returned("g2")
    /\ options["g1"].AnnotationsOnly
    /\ options["g2"] = options["g1"]
    /\ zip["g1"].readable
    /\ zip["g1"].Payload.kind # "empty"
    /\ zip["g2"] = [zip["g1"] EXCEPT !.Payload = EmptyBytes]
    /\ before["g1"] = before["g2"]
    /\ fault["g1"] = fault["g2"]

SameOutcome == err["g1"] = err["g2"] /\ output["g1"] = output["g2"]

Invoked(g) == Len(merges[g]) > 0

\* The Overlay condition on the call's inputs.
BackgroundWanted(g) ==
    /\ zip[g].readable
    /\ zip[g].Payload.kind = "pdf"
    /\ ~options[g].AnnotationsOnly

\* Every invocation is the only one, of two streams, the background copy first
\* and the annotation-layer file second, the first holding the archive's buffer.
InvokedAsAgreed(g) ==
    Invoked(g) =>
        /\ Len(merges[g]) = 1
        /\ Len(merges[g][1].streams) = 2
        /\ merges[g][1].names = <<tmpBackgroundPath[g], tmpAnnotationsPath[g]>>
        /\ tmpBackgroundPath[g] # tmpAnnotationsPath[g]
        /\ merges[g][1].names[1] \in made[g]
        /\ merges[g][1].names[2] \in made[g]
        /\ merges[g][1].streams[1] = zip[g].Payload

\* C6 as stated: on a fresh generator the merge collaborator is invoked iff the
\* archive carries a parseable background and AnnotationsOnly is false; then
\* once, with two streams, background first, holding the archive's buffer.
C6_MergeIffBackground ==
    \A g \in Gens :
        (Returned(g) /\ ncalls[g] = 1) =>
            /\ Invoked(g) <=> BackgroundWanted(g)
            /\ InvokedAsAgreed(g)

\* C6 amended: on a fresh generator the merge collaborator is invoked only if
\* the archive carries a parseable background and AnnotationsOnly is false, and
\* then it is invoked whenever the archive is not an epub, the document has a
\* page and every step before the merge succeeds; an invocation is the only
\* one, of two streams, background first, holding the archive's buffer. A call
\* that does not take the Overlay path never invokes it.
C6_MergeOnlyInOverlay ==
    \A g \in Gens :
        ncalls[g] = 1 =>
            /\ Invoked(g) => BackgroundWanted(g) /\ InOverlay(g)
            /\ (/\ Returned(g)
                /\ BackgroundWanted(g)
                /\ zip[g].FileType # "epub"
                /\ Len(zip[g].Pages) > 0
                /\ fault[g] \in {"", "MergeRaw"}) => Invoked(g)
            /\ InvokedAsAgreed(g)

C6_Witness ==
    \E g \in Gens :
        /\ Returned(g)
        /\ ncalls[g] = 1
        /\ Invoked(g)
        /\ fault[g] = ""
        /\ merges[g][1].streams[1] = ValidBackground
        /\ Len(zip[g].Pages) = 2

\* The source pages the loop does not skip.
NonSkipped(g) ==
    {i \in 1..Len(zip[g].Pages) : options[g].AllPages \/ Len(zip[g].Pages[i].Data) > 0}

\* C7: the finished rendered document has as many pages as the document has
\* non-skipped source pages, or exactly 1 when every source page is skipped.
C7_PageCount ==
    \A g \in Gens :
        Len(rendered[g]) = 1 =>
            Len(rendered[g][1].pages) =
                IF NonSkipped(g) = {} THEN 1 ELSE Cardinality(NonSkipped(g))

AdvancedFor(g, i) ==
    \E k \in 1..Len(calls[g]) : calls[g][k].op = "ShowPage" /\ calls[g][k].page = i

\* C8: an emitted page is followed by a page-advance unless it is the final
\* source page and AllPages is false; with AllPages false no page-advance is
\* issued for the final source page, nor one after which every remaining
\* source page is skipped.
C8_PageAdvance ==
    \A g \in Gens :
        \A i \in 1..Len(zip[g].Pages) :
            (i < idx[g] /\ i \in NonSkipped(g)) =>
                /\ AdvancedFor(g, i) <=> ~(i = Len(zip[g].Pages) /\ ~options[g].AllPages)
                /\ (/\ ~options[g].AllPages
                    /\ \A j \in (i + 1)..Len(zip[g].Pages) : j \notin NonSkipped(g))
                   => ~AdvancedFor(g, i)

\* C9: with AllPages false, the loop iteration of a source page without
\* StrokeData issues no surface call (no drawing, page-resize, label or
\* page-advance) and keeps the output page counter.
C9_SkippedPageChangesNothing ==
    [][\A g \in Gens :
          (/\ pc[g] = "render"
           /\ idx[g] <= Len(zip[g].Pages)
           /\ idx'[g] = idx[g] + 1
           /\ ~options[g].AllPages
           /\ Len(zip[g].Pages[idx[g]].Data) = 0)
          => /\ calls'[g] = calls[g]
             /\ pageCount'[g] = pageCount[g]
             /\ pdfSurface'[g] = pdfSurface[g]]_vars

C9_Witness ==
    \E g \in Gens :
        /\ pc[g] = "render"
        /\ ~options[g].AllPages
        /\ options[g].AddPageNumbers
        /\ Len(zip[g].Pages) = 3
        /\ idx[g] = 3
        /\ zip[g].Pages[1] = PenPage
        /\ zip[g].Pages[2] = BlankPage
        /\ pageCount[g] = 1
        /\ calls[g][Len(calls[g])].page = 1

Labels(g) == SelectSeq(calls[g], LAMBDA c : c.op = "ShowText")

\* The source pages the loop has emitted so far.
Emitted(g) == {i \in NonSkipped(g) : i < idx[g]}

\* C10: with AddPageNumbers, one label per emitted page and none for a skipped
\* page, the labels being 1, 2, ..., n in that order, n the number of emitted
\* pages; without AddPageNumbers, no label at all.
C10_PageNumbers ==
    \A g \in Gens :
        LET labels == Labels(g)
        IN IF options[g].AddPageNumbers
           THEN /\ Len(labels) = Cardinality(Emitted(g))
                /\ \A k \in 1..Len(labels) : labels[k].x = k /\ labels[k].page \in Emitted(g)
                /\ \A k \in 1..(Len(labels) - 1) : labels[k].page < labels[k + 1].page
           ELSE labels = <<>>

C10_Witness ==
    \E g \in Gens :
        /\ Returned(g)
        /\ options[g].AddPageNumbers
        /\ ~options[g].AllPages
        /\ zip[g].Pages = <<BlankPage, PenPage, ErasedPage>>
        /\ Len(Labels(g)) = 2
        /\ Labels(g)[2].x = 2
        /\ Labels(g)[2].page = 3

\* ------------------------------------------------------------ drawing claims
\* The line a call of the log was issued for.
LineAt(g, c) == zip[g].Pages[c.page].Data[1].Layers[c.layer].Lines[c.line]

\* The calls of the log issued for lines (not for the page itself).
LineCallsOf(g) == SelectSeq(calls[g], LAMBDA c : c.layer > 0)

\* The lines of a page, as a set of <<layer, line>> positions.
LinePositions(page) ==
    IF Len(page.Data) = 0 THEN {}
    ELSE {<<l, k>> \in (1..MaxLayers + 1) \X (1..MaxLines + 1) :
             l <= Len(page.Data[1].Layers) /\ k <= Len(page.Data[1].Layers[l].Lines)}

OnlyErasers(page) ==
    \A p \in LinePositions(page) : page.Data[1].Layers[p[1]].Lines[p[2]].BrushType = "Eraser"

\* The page with every line taken away.
WithoutLines(page) ==
    IF Len(page.Data) = 0 THEN page
    ELSE [Data |-> <<[Layers |-> [l \in 1..Len(page.Data[1].Layers) |-> [Lines |-> <<>>]]]>>]

\* The log of the whole page loop over the given pages, from page i on.
RECURSIVE DocCalls(_, _, _, _, _)
DocCalls(pages, i, count, opts, tpl) ==
    IF i > Len(pages) THEN <<>>
    ELSE OfPage(PageCalls(pages[i], i, count, Len(pages), opts, tpl), i)
         \o DocCalls(pages, i + 1,
                     IF Skipped(opts, pages[i]) THEN count ELSE count + 1, opts, tpl)

LoopOver(g) == Returned(g) /\ Len(rendered[g]) > 0

\* C11: no call of the log was issued for an eraser line or for a line with
\* no points, and a document whose only lines are eraser lines is rendered
\* with exactly the calls of the same pages with no lines at all.
C11_ErasersDrawNothing ==
    \A g \in Gens :
        /\ \A k \in 1..Len(calls[g]) :
               calls[g][k].layer > 0 =>
                   /\ LineAt(g, calls[g][k]).BrushType # "Eraser"
                   /\ Len(LineAt(g, calls[g][k]).Points) >= 1
        /\ (LoopOver(g) /\ \A i \in 1..Len(zip[g].Pages) : OnlyErasers(zip[g].Pages[i]))
           => /\ calls[g] = DocCalls([i \in 1..Len(zip[g].Pages) |-> WithoutLines(zip[g].Pages[i])],
                                     1, 0, options[g], template[g])
              /\ Len(LineCallsOf(g)) = 0

\* A page whose only line is an eraser line with points has been rendered.
C11_Witness ==
    /\ LoopOver("g1")
    /\ Len(zip["g1"].Pages) = 1
    /\ OnlyErasers(zip["g1"].Pages[1])
    /\ \E p \in LinePositions(zip["g1"].Pages[1]) :
           Len(zip["g1"].Pages[1].Data[1].Layers[p[1]].Lines[p[2]].Points) = MaxPoints
    /\ Len(calls["g1"]) > 0

IsOrdinary(line) == line.BrushType \notin {"Eraser", "HighlighterV5"}

Max(a, b) == IF a >= b THEN a ELSE b

\* The SetLineWidth calls of the log issued for ordinary lines, with the
\* BrushSize of the line of each.
WidthCalls(g) ==
    {k \in 1..Len(calls[g]) :
        /\ calls[g][k].layer > 0
        /\ calls[g][k].op = "SetLineWidth"
        /\ IsOrdinary(LineAt(g, calls[g][k]))}

SizeAt(g, k) == LineAt(g, calls[g][k]).BrushSize

\* C12 as claimed: the width of an ordinary line is max(0.5, BrushSize*6.0 -
\* 10.8), which is 0.5 for BrushSize 2.0 and 7.2 for BrushSize 3.0 (tenths).
C12_WidthHalfAtTwo ==
    \A g \in Gens : \A k \in WidthCalls(g) :
        /\ calls[g][k].x = Max(5, SizeAt(g, k) * 6 - 108)
        /\ SizeAt(g, k) = 20 => calls[g][k].x = 5
        /\ SizeAt(g, k) = 30 => calls[g][k].x = 72

\* C12: the width of an ordinary line is max(0.5, BrushSize*6.0 - 10.8),
\* which is 1.2 for BrushSize 2.0, 7.2 for BrushSize 3.0 and the lower limit
\* 0.5 for BrushSize 1.8 (tenths).
C12_StrokeWidth ==
    \A g \in Gens : \A k \in WidthCalls(g) :
        /\ calls[g][k].x = Max(5, SizeAt(g, k) * 6 - 108)
        /\ SizeAt(g, k) = 20 => calls[g][k].x = 12
        /\ SizeAt(g, k) = 30 => calls[g][k].x = 72
        /\ SizeAt(g, k) = 18 => calls[g][k].x = 5

\* The width of an ordinary line of BrushSize 2.0 has been set.
C12_Witness ==
    /\ LoopOver("g1")
    /\ \E k \in WidthCalls("g1") : SizeAt("g1", k) = 20 /\ calls["g1"][k].x = 12

\* The path calls (MoveTo, LineTo) of the log issued for ordinary lines.
PathCallsOf(g) ==
    {k \in 1..Len(calls[g]) :
        /\ calls[g][k].layer > 0
        /\ calls[g][k].op \in {"MoveTo", "LineTo"}
        /\ IsOrdinary(LineAt(g, calls[g][k]))}

OnDevice(p) == 0 <= p.X /\ p.X <= DeviceWidth /\ 0 <= p.Y /\ p.Y <= DeviceHeight

\* C13: every point of an ordinary line lying on the device is mapped into
\* the page: 0 <= x*scale <= pageWidth and 0 <= pageHeight - y*scale <=
\* pageHeight (coordinates in units of 1/CoordDen).
C13_ContentFitsPage ==
    \A g \in Gens : \A k \in PathCallsOf(g) :
        (\A i \in 1..Len(LineAt(g, calls[g][k]).Points) :
            OnDevice(LineAt(g, calls[g][k]).Points[i]))
        => /\ 0 <= calls[g][k].x
           /\ calls[g][k].x <= rmPageSize.Width * CoordDen
           /\ 0 <= calls[g][k].y
           /\ calls[g][k].y <= rmPageSize.Height * CoordDen

\* --------------------------------------------------------- resource claims
\* C14: when a Generate call has returned, on whatever path, none of the
\* temporary files it created exists any more.
C14_NoTemporaryFileLeft ==
    \A g \in Gens : Returned(g) => made[g] \cap DOMAIN tmp = {}

\* A call that created all three temporary files has returned after a
\* failed merge.
C14_Witness ==
    /\ Returned("g1")
    /\ Cardinality(made["g1"]) = 3
    /\ err["g1"] = "failed to merge PDFs"
    /\ Len(merges["g1"]) = 1

\* ------------------------------------------------------ concurrency claims
\* The temporary files a call holds: created by it and not yet removed by it.
Live(g) ==
    (IF pc[g] \in {"render", "copy"} THEN {tmpPath[g]} ELSE {})
    \cup (IF pc[g] \notin {"idle", "done"} THEN Deferred(g) ELSE {})

Other(g) == CHOOSE h \in Gens : h # g

\* The document the page loop of the call renders when nothing else runs.
RenderedAlone(g) ==
    PdfBytes(FinishedPages(SurfaceCalls(
        NewPDFSurface(tmpPath[g], rmPageSize.Width, rmPageSize.Height),
        DocCalls(zip[g].Pages, 1, 0, options[g], template[g]), 1)))

\* C15 as claimed (its first part): the names of the temporary files of the
\* one call are distinct from the names of the temporary files of the other.
C15_NamesNeverShared == made["g1"] \cap made["g2"] = {}

\* The files a call holds exist, and no other call holds a file of that name.
DisjointFiles ==
    \A g \in Gens : Live(g) \subseteq DOMAIN tmp /\ Live(g) \cap Live(Other(g)) = {}

\* What a call has read is what it wrote itself: the document it copies to
\* its destination is its own rendering, and the streams it hands to the
\* merge are its own background and its own annotation-layer file.
OwnData ==
    \A g \in Gens :
        /\ pc[g] = "copy" => tmp[tmpPath[g]] = RenderedAlone(g)
        /\ (Returned(g) /\ err[g] = NoError) => output[g] = rendered[g]
        /\ \A k \in 1..Len(merges[g]) :
               merges[g][k].streams = <<backgroundPDF[g][1], EmptyBytes>>

\* C15: while two calls run concurrently, the temporary files they hold have
\* distinct names and exist until their own call removes them, and each call
\* reads back only what it wrote itself, so that its destination holds the
\* result of the call running alone.
C15_CallsDoNotInterfere == DisjointFiles /\ OwnData

\* Both calls hold temporary files at the same time, the second one having
\* been given a name the first one gave up.
C15_Witness ==
    /\ pc["g1"] = "merge" /\ pc["g2"] = "copy"
    /\ tmpPath["g1"] = tmpPath["g2"]

\* ------------------------------------------------------------ input claims
\* C16: a call on a readable document of zero pages returns an error, with
\* no temporary file, no surface, no surface call, no merge and its
\* destination as it was, whatever the options and the background are.
C16_NoPagesIsAnError ==
    \A g \in Gens :
        (ncalls[g] > 0 /\ zip[g].readable /\ Len(zip[g].Pages) = 0)
        => /\ Returned(g)
           /\ err[g] # NoError
           /\ Untouched(g)

\* A zero-page document with a parseable background, overlay not refused by
\* the options, over an older destination: the call has returned.
C16_Witness ==
    /\ Returned("g1")
    /\ zip["g1"].readable /\ zip["g1"].FileType = "pdf" /\ Len(zip["g1"].Pages) = 0
    /\ zip["g1"].Payload = ValidBackground
    /\ ~options["g1"].AnnotationsOnly
    /\ err["g1"] = "the document has no pages"
    /\ output["g1"] = <<OldOutput>>

\* ------------------------------------------------------------ order claims
\* c comes no later than d in the order of pages, then layers, then lines.
NoLater(c, d) ==
    \/ c.page < d.page
    \/ c.page = d.page /\ c.layer < d.layer
    \/ c.page = d.page /\ c.layer = d.layer /\ c.line <= d.line

\* C17: in the log of a call the pages never go back; the calls issued for
\* lines follow the order of pages, then layers, then lines; and the calls
\* for the lines of one page are one unbroken run, opened by the page's Save
\* and closed by its Restore, so that the calls of one line are contiguous.
C17_InputOrder ==
    \A g \in Gens :
        /\ \A k \in 1..(Len(calls[g]) - 1) :
               LET c == calls[g][k]
                   d == calls[g][k + 1]
               IN /\ c.page <= d.page
                  /\ (c.layer > 0 /\ d.layer = 0) => (d.op = "Restore" /\ d.page = c.page)
                  /\ (c.layer = 0 /\ d.layer > 0) => (c.op = "Save" /\ d.page = c.page)
        /\ \A k \in 1..(Len(LineCallsOf(g)) - 1) :
               NoLater(LineCallsOf(g)[k], LineCallsOf(g)[k + 1])

\* Two pages of two layers each, the first layer of two lines, rendered.
C17_Witness ==
    /\ LoopOver("g1")
    /\ zip["g1"].Pages = <<InkPage, InkPage>>
    /\ \E j, k \in 1..Len(calls["g1"]) :
           /\ j < k
           /\ calls["g1"][j].page = 1 /\ calls["g1"][j].layer = 2
           /\ calls["g1"][k].page = 2 /\ calls["g1"][k].layer = 1 /\ calls["g1"][k].line = 2

\* ------------------------------------------------------------ build claims
\* C18: in the build without cairo every call that has been made returned
\* the capability error, having read no archive, made no temporary file,
\* no surface, no surface call and no merge, and left its destination as it
\* was; this holds after any number of calls on either generator.
C18_StubAlwaysFails ==
    \A g \in Gens :
        ncalls[g] > 0 =>
            /\ Returned(g)
            /\ err[g] = CairoRequired
            /\ zip[g] = Unreadable
            /\ tmp = <<>>
            /\ Untouched(g)

\* Both generators have been called as often as allowed, one of them with
\* every option set and an older file at its destination.
C18_Witness ==
    /\ \A g \in Gens : ncalls[g] = MaxCalls /\ err[g] = CairoRequired
    /\ options["g1"] = [AddPageNumbers |-> TRUE, AllPages |-> TRUE, AnnotationsOnly |-> TRUE]
    /\ output["g1"] = <<OldOutput>>

\* ------------------------------------------------------------ brush claims
\* The calls of the log issued for line k of layer l of page i.
CallsFor(g, i, l, k) ==
    SelectSeq(calls[g], LAMBDA c : c.page = i /\ c.layer = l /\ c.line = k)

\* Of these, the path calls, without their attribution.
PathOf(cs) ==
    LET path == SelectSeq(cs, LAMBDA c : c.op \in {"MoveTo", "LineTo", "Stroke"})
    IN [j \in 1..Len(path) |-> Untag(path[j])]

\* The scale of the page every page is rendered on, times CoordDen.
PageScale == ScaleOf(rmPageSize.Width, rmPageSize.Height)

\* (x*scale, pageHeight - y*scale), in units of 1/CoordDen.
MappedX(p) == p.X * PageScale
MappedY(p) == rmPageSize.Height * CoordDen - p.Y * PageScale

\* One move-to to the first point, a line-to to every further point in order,
\* one stroke.
StrokePath(points) ==
    [j \in 1..(Len(points) + 1) |->
        IF j = 1 THEN Call("MoveTo", MappedX(points[1]), MappedY(points[1]))
        ELSE IF j <= Len(points) THEN Call("LineTo", MappedX(points[j]), MappedY(points[j]))
        ELSE Call("Stroke", 0, 0)]

\* Every line of every page of the document, as <<page, layer, line>>.
AllLines(g) ==
    {p \in (1..Len(zip[g].Pages)) \X (1..MaxLayers + 1) \X (1..MaxLines + 1) :
        <<p[2], p[3]>> \in LinePositions(zip[g].Pages[p[1]])}

TheLine(g, p) == zip[g].Pages[p[1]].Data[1].Layers[p[2]].Lines[p[3]]

\* C19: once the page loop is over, the path calls of every ordinary line of
\* n >= 1 points are one move-to to the mapped first point, n-1 line-to calls
\* to the mapped further points in order, and one stroke; for n = 1 a move-to
\* and a stroke.
C19_StrokePath ==
    \A g \in Gens :
        LoopOver(g) =>
            \A p \in AllLines(g) :
                (IsOrdinary(TheLine(g, p)) /\ Len(TheLine(g, p).Points) >= 1)
                => PathOf(CallsFor(g, p[1], p[2], p[3])) = StrokePath(TheLine(g, p).Points)

\* An ordinary line of a single point, away from the origin, has been drawn
\* with a move-to and a stroke.
C19_Witness ==
    /\ LoopOver("g1")
    /\ \E p \in AllLines("g1") :
           /\ IsOrdinary(TheLine("g1", p))
           /\ TheLine("g1", p).Points = <<Pt(100, 200)>>
           /\ Len(PathOf(CallsFor("g1", p[1], p[2], p[3]))) = 2

\* The segment of a highlighter line: from the first point's x to the last
\* point's x, at the first point's height lowered by half the width scale*30.
HighlighterPath(points) ==
    LET y == rmPageSize.Height * CoordDen
             - (points[1].Y * PageScale + (PageScale * 30) \div 2)
    IN <<Call("MoveTo", MappedX(points[1]), y),
         Call("LineTo", MappedX(points[Len(points)]), y),
         Call("Stroke", 0, 0)>>

WidthsOf(cs) ==
    LET ws == SelectSeq(cs, LAMBDA c : c.op = "SetLineWidth")
    IN [j \in 1..Len(ws) |-> ws[j].x]

\* C20: once the page loop is over, a highlighter line of fewer than 2
\* points has no call in the log, and one of n >= 2 points has one move-to,
\* one line-to and one stroke, along the segment fixed by its first point
\* and its last point's x, with line width scale*30.
C20_HighlighterSegment ==
    \A g \in Gens :
        LoopOver(g) =>
            \A p \in AllLines(g) :
                TheLine(g, p).BrushType = "HighlighterV5" =>
                    LET cs == CallsFor(g, p[1], p[2], p[3])
                        points == TheLine(g, p).Points
                    IN IF Len(points) < 2 THEN cs = <<>>
                       ELSE /\ PathOf(cs) = HighlighterPath(points)
                            /\ WidthsOf(cs) = <<PageScale * 30>>

\* A highlighter line of MaxPoints points ending at another height than it
\* begins has been drawn.
C20_Witness ==
    /\ LoopOver("g1")
    /\ \E p \in AllLines("g1") :
           /\ TheLine("g1", p).BrushType = "HighlighterV5"
           /\ Len(TheLine("g1", p).Points) = MaxPoints
           /\ TheLine("g1", p).Points[1].Y # TheLine("g1", p).Points[MaxPoints].Y
           /\ Len(CallsFor("g1", p[1], p[2], p[3])) > 0

\* --------------------------------------------------------- page-size claims
\* The positions of the log holding a page-resize call.
Resizes(g) == {k \in 1..Len(calls[g]) : calls[g][k].op = "SetSize"}

ResizesFor(g, i) == {k \in Resizes(g) : calls[g][k].page = i}

\* The first page the loop has emitted.
FirstEmitted(g) == CHOOSE i \in Emitted(g) : \A j \in Emitted(g) : i <= j

\* C21: every emitted page after the first emitted one has exactly one
\* page-resize call, which is the first call of that page; the first emitted
\* page and the skipped pages have none; so n >= 1 emitted pages have n-1
\* page-resize calls in all.
C21_PageResize ==
    \A g \in Gens :
        /\ \A i \in 1..Len(zip[g].Pages) :
               Cardinality(ResizesFor(g, i)) =
                   IF i \in Emitted(g) /\ i # FirstEmitted(g) THEN 1 ELSE 0
        /\ \A k \in Resizes(g) : k > 1 /\ calls[g][k - 1].page < calls[g][k].page
        /\ Emitted(g) # {} => Cardinality(Resizes(g)) = Cardinality(Emitted(g)) - 1

\* A skipped page, then two emitted pages with labels: one page-resize call,
\* for the third source page.
C21_Witness ==
    /\ Returned("g1")
    /\ ~options["g1"].AllPages /\ options["g1"].AddPageNumbers
    /\ zip["g1"].Pages = <<BlankPage, PenPage, PenPage>>
    /\ Cardinality(Resizes("g1")) = 1
    /\ ResizesFor("g1", 3) # {}

\* ------------------------------------------------------------- reuse claims
\* C22: a call whose archive carries no background buffer runs in Blank mode,
\* whatever calls were made on the generator before it: it does not enter
\* generateWithBackground, hands nothing to the merge and writes no
\* background copy.
C22_ModeFromThisCall ==
    \A g \in Gens :
        (ncalls[g] > 0 /\ zip[g].readable /\ zip[g].Payload = EmptyBytes)
        => /\ ~InOverlay(g)
           /\ merges[g] = <<>>
           /\ tmpBackgroundPath[g] = NoPath

\* ------------------------------------------------------- orientation claims
\* The positions of the log holding the anchor of a page-number label.
LabelAnchors(g) ==
    {k \in 1..Len(calls[g]) : calls[g][k].op = "MoveTo" /\ calls[g][k].layer = 0}

\* The vertical half of the page a surface Y lies in.
HalfOf(y) == IF 2 * y < rmPageSize.Height * CoordDen THEN "low" ELSE "high"

AllAtY(points, y) == \A i \in 1..Len(points) : points[i].Y = y

\* C23: the anchor of a page-number label lies in the same vertical half of
\* the page as the mapped points of a stroke drawn along the bottom of the
\* device (y = DeviceHeight), and in the other half than those of a stroke
\* drawn along its top (y = 0).
C23_OneOrientation ==
    \A g \in Gens : \A a \in LabelAnchors(g) : \A k \in PathCallsOf(g) :
        /\ AllAtY(LineAt(g, calls[g][k]).Points, DeviceHeight)
           => HalfOf(calls[g][k].y) = HalfOf(calls[g][a].y)
        /\ AllAtY(LineAt(g, calls[g][k]).Points, 0)
           => HalfOf(calls[g][k].y) # HalfOf(calls[g][a].y)

\* ------------------------------------------------------------ archive claims
\* The steps of CreateZipDocument after the thumbnail.
AfterThumbnail == {"Create pagedata", "Create content", "createZipContent"}

\* C24: makeThumbnail is called only for a PDF source with RMAPI_THUMBNAILS
\* set; when it fails its error is not the call's error, only a later step
\* can make the call fail, and a call that no later step fails returns the
\* path of an archive holding the document, pagedata and content entries;
\* a finished call has a non-empty zipPath exactly when its error is nil.
C24_ThumbnailOptional ==
    /\ zd.thumbCalls > 0 => zd.ext = "pdf" /\ zd.env # ""
    /\ zd.thumbErr # NoError =>
          /\ zd.err # zd.thumbErr
          /\ zd.failed # "" => zd.failed \in AfterThumbnail
          /\ (zd.pc = "done" /\ zd.failed = "") =>
                /\ zd.err = NoError
                /\ zd.zipPath = zd.tmpName
                /\ zd.zipPath # NoPath
                /\ zd.entries = <<"document", "pagedata", "content">>
    /\ zd.pc = "done" => (zd.zipPath # NoPath <=> zd.err = NoError)

\* A PDF's archive is completed although pdftoppm failed.
C24_Witness ==
    /\ zd.pc = "done"
    /\ zd.ext = "pdf"
    /\ zd.env = "1"
    /\ zd.thumbCalls = 1
    /\ zd.thumbErr = "pdftoppm"
    /\ zd.err = NoError
    /\ zd.zipPath # NoPath
    /\ zd.entries = <<"document", "pagedata", "content">>

====
